---- MODULE Spec2Model ----
(***************************************************************************)
(* Model of the connector control-plane client of fivetran-hvr-manager:    *)
(* the Transport Client (backend/fivetran_client.py, FivetranClient) and   *)
(* the Domain Service (backend/api.py, FivetranAPI), and of the Streamlit  *)
(* page that drives them (app.py).  Spec calls the Domain Service          *)
(* directly, SpecService against a service that applies what it accepts,   *)
(* SpecApp through the page's session and its buttons.                     *)
(*                                                                         *)
(* Python values are tagged records: None, Bool(b), Str(s), Dict(f) with f *)
(* a function from keys to values, List(s) with s a sequence.  A call ends *)
(* either [kind |-> "return", value |-> v] or [kind |-> "raise", exc |-> e].*)
(* Inside the operators the record also carries io, the HTTP round trips   *)
(* the call made: each the request sent and what requests.request, with    *)
(* raise_for_status() and json(), made of the service's reply.             *)
(***************************************************************************)
EXTENDS Integers, Sequences, FiniteSets, TLC

VARIABLES
    credential,  \* the key/secret pair the client was constructed with
    client,      \* the FivetranAPI instance (st.session_state.api): its
                 \* FivetranClient's fields, or None
    call,        \* the last Domain Service call: its name and arguments
    remote,      \* the service's reply to the request of that call
    io,          \* the HTTP round trips of that call
    result,      \* what that call handed its caller
    service,     \* the remote service's paused flag of each connector
    last,        \* per connector, the last activate or pause call that succeeded
    session,     \* st.session_state: authenticated, page, selected_connector
    run          \* the last user event, the Domain Service calls it led to and
                 \* the buttons its last script run put on the page

vars == <<credential, client, call, remote, io, result, service, last, session, run>>

\* ------------------------------------------------------------ Python values

None == [t |-> "None"]

Bool(b) == [t |-> "bool", v |-> b]

Str(s) == [t |-> "str", v |-> s]

Dict(f) == [t |-> "dict", v |-> f]

List(s) == [t |-> "list", v |-> s]

EmptyDict == Dict([k \in {} |-> None])

EmptyList == List(<<>>)

\* bool(x): Python truthiness, as used by `if group_id:` and `not x.get("paused")`
Truthy(x) ==
    CASE x.t = "None" -> FALSE
      [] x.t = "bool" -> x.v
      [] x.t = "str"  -> x.v # ""
      [] x.t = "dict" -> DOMAIN x.v # {}
      [] x.t = "list" -> Len(x.v) > 0

\* d.get(k, default) on a dict d
get(d, k, default) == IF k \in DOMAIN d.v THEN d.v[k] ELSE default

\* `sub in s` on Python strings
Contains(s, sub) ==
    \E i \in 1..(Len(s) - Len(sub) + 1) : SubSeq(s, i, i + Len(sub) - 1) = sub

\* ------------------------------------------------------------ call outcomes

Return(v, trips) == [kind |-> "return", value |-> v, io |-> trips]

Raise(e, trips) == [kind |-> "raise", exc |-> e, io |-> trips]

\* what the caller of an operation sees: the value returned or the exception
Outcome(o) ==
    IF o.kind = "return" THEN [kind |-> "return", value |-> o.value]
    ELSE [kind |-> "raise", exc |-> o.exc]

\* an exception object; str(e) is its text
Exception(type, status, text) == [type |-> type, status |-> status, text |-> text]

str(e) == e.text

AttributeError(type, attr) ==
    Exception("AttributeError", 0, "'" \o type \o "' object has no attribute '" \o attr \o "'")

TypeError(type) ==
    Exception("TypeError", 0, "'" \o type \o "' object is not iterable")

\* ------------------------------------------------------------ bounds

\* longest items list a list endpoint answers with
MaxItems == 2

\* ------------------------------------------------------------ Transport Client

BASE_URL == "https://api.fivetran.com/v1"

timeout == 30

StatusText(status) ==
    CASE status = 200 -> "200"
      [] status = 300 -> "300"
      [] status = 404 -> "404"
      [] status = 500 -> "500"

\* requests.Response.raise_for_status: HTTPError for 400..599, nothing otherwise
raise_for_status(status, reason, url) ==
    IF status >= 400 /\ status < 500
    THEN Exception("HTTPError", status,
                   StatusText(status) \o " Client Error: " \o reason \o " for url: " \o url)
    ELSE IF status >= 500 /\ status < 600
    THEN Exception("HTTPError", status,
                   StatusText(status) \o " Server Error: " \o reason \o " for url: " \o url)
    ELSE None

\* requests.request(..., timeout=30) followed by raise_for_status() and json():
\* the outcome of one round trip whose reply is rem
send(req, rem) ==
    IF rem.net = "refused"
    THEN [kind |-> "raise",
          exc |-> Exception("ConnectionError", 0, "Connection refused: " \o req.url)]
    ELSE IF rem.delay > req.timeout
    THEN [kind |-> "raise",
          exc |-> Exception("Timeout", 0, "Read timed out. (read timeout=30)")]
    ELSE IF raise_for_status(rem.status, rem.reason, req.url) # None
    THEN [kind |-> "raise", exc |-> raise_for_status(rem.status, rem.reason, req.url)]
    ELSE IF rem.body.t = "text"
    THEN [kind |-> "raise",
          exc |-> Exception("JSONDecodeError", 0, "Expecting value: line 1 column 1 (char 0)")]
    ELSE [kind |-> "return", value |-> rem.body]

Request(self, method, endpoint, data) ==
    [method  |-> method,
     url     |-> BASE_URL \o "/" \o endpoint,
     auth    |-> self.auth,
     headers |-> ("Content-Type" :> "application/json"),
     json    |-> data,
     timeout |-> timeout]

\* _make_request with an except clause that sends the request once more
make_request_retrying(self, method, endpoint, data, rem) ==
    LET req   == Request(self, method, endpoint, data)
        reply == send(req, rem)
        trip  == [request |-> req, reply |-> reply]
    IN  IF reply.kind = "raise" THEN Raise(reply.exc, <<trip, trip>>)
        ELSE Return(reply.value, <<trip>>)

\* FivetranClient._make_request: one requests.request call; a RequestException
\* is logged and re-raised
make_request(self, method, endpoint, data, rem) ==
    LET req   == Request(self, method, endpoint, data)
        reply == send(req, rem)
        trips == <<[request |-> req, reply |-> reply]>>
    IN  IF reply.kind = "raise" THEN Raise(reply.exc, trips)
        ELSE Return(reply.value, trips)

\* `response.get("data", {})` at the end of every single-entity client method
UnwrapData(r) ==
    IF r.kind = "raise" THEN r
    ELSE Return(get(r.value, "data", EmptyDict), r.io)

\* `response.get("data", {}).get("items", [])` at the end of the list methods
UnwrapItems(r) ==
    IF r.kind = "raise" THEN r
    ELSE LET data == get(r.value, "data", EmptyDict)
         IN  IF data.t # "dict" THEN Raise(AttributeError("NoneType", "get"), r.io)
             ELSE Return(get(data, "items", EmptyList), r.io)

\* __init__ that builds auth from the key alone
FivetranClient_init_key_only(api_key, api_secret) ==
    [api_key |-> api_key, api_secret |-> api_secret, auth |-> <<api_key, api_key>>]

FivetranClient_init(api_key, api_secret) ==
    [api_key |-> api_key, api_secret |-> api_secret, auth |-> <<api_key, api_secret>>]

\* list_connectors that tests `group_id is not None` instead of its truth value
FivetranClient_list_connectors_not_none(self, group_id, rem) ==
    LET endpoint == IF group_id # None
                    THEN "groups/" \o group_id.v \o "/connectors"
                    ELSE "connectors"
    IN  UnwrapItems(make_request(self, "GET", endpoint, None, rem))

FivetranClient_list_connectors(self, group_id, rem) ==
    LET endpoint == IF Truthy(group_id)
                    THEN "groups/" \o group_id.v \o "/connectors"
                    ELSE "connectors"
    IN  UnwrapItems(make_request(self, "GET", endpoint, None, rem))

FivetranClient_get_connector(self, connector_id, rem) ==
    UnwrapData(make_request(self, "GET", "connectors/" \o connector_id, None, rem))

FivetranClient_activate_connector(self, connector_id, rem) ==
    LET data == Dict([paused |-> Bool(FALSE)])
    IN  UnwrapData(make_request(self, "PATCH", "connectors/" \o connector_id, data, rem))

\* pause_connector that sends the body of activate_connector
FivetranClient_pause_connector_unpausing(self, connector_id, rem) ==
    LET data == Dict([paused |-> Bool(FALSE)])
    IN  UnwrapData(make_request(self, "PATCH", "connectors/" \o connector_id, data, rem))

FivetranClient_pause_connector(self, connector_id, rem) ==
    LET data == Dict([paused |-> Bool(TRUE)])
    IN  UnwrapData(make_request(self, "PATCH", "connectors/" \o connector_id, data, rem))

\* sync_connector that ignores force and always posts to .../sync
FivetranClient_sync_connector_unforced(self, connector_id, force, rem) ==
    LET endpoint == "connectors/" \o connector_id \o "/sync"
    IN  UnwrapData(make_request(self, "POST", endpoint, None, rem))

FivetranClient_sync_connector(self, connector_id, force, rem) ==
    LET endpoint == "connectors/" \o connector_id \o "/"
                    \o (IF force THEN "force" ELSE "sync")
    IN  UnwrapData(make_request(self, "POST", endpoint, None, rem))

FivetranClient_resync_table(self, connector_id, schema, table, rem) ==
    LET endpoint == "connectors/" \o connector_id \o "/schemas/" \o schema
                    \o "/tables/" \o table \o "/resync"
    IN  UnwrapData(make_request(self, "POST", endpoint, None, rem))

FivetranClient_get_connector_schemas(self, connector_id, rem) ==
    UnwrapData(make_request(self, "GET", "connectors/" \o connector_id \o "/schemas",
                            None, rem))

\* update_connector_schema that always sends {"enabled": true}
FivetranClient_update_connector_schema_enabling(self, connector_id, schema, table, enabled, rem) ==
    LET endpoint == "connectors/" \o connector_id \o "/schemas/" \o schema
                    \o "/tables/" \o table
        data     == Dict([enabled |-> Bool(TRUE)])
    IN  UnwrapData(make_request(self, "PATCH", endpoint, data, rem))

FivetranClient_update_connector_schema(self, connector_id, schema, table, enabled, rem) ==
    LET endpoint == "connectors/" \o connector_id \o "/schemas/" \o schema
                    \o "/tables/" \o table
        data     == Dict([enabled |-> Bool(enabled)])
    IN  UnwrapData(make_request(self, "PATCH", endpoint, data, rem))

FivetranClient_list_groups(self, rem) ==
    UnwrapItems(make_request(self, "GET", "groups", None, rem))

FivetranClient_test_connection(self, connector_id, rem) ==
    UnwrapData(make_request(self, "POST", "connectors/" \o connector_id \o "/test",
                            None, rem))

\* ------------------------------------------------------------ Domain Service

FivetranAPI_init(api_key, api_secret) == FivetranClient_init(api_key, api_secret)

\* the dict appended per connector in get_all_connectors
FormatConnector(connector) ==
    Dict([id          |-> get(connector, "id", None),
          name        |-> get(connector, "schema", None),
          service     |-> get(connector, "service", None),
          status      |-> Str(IF ~Truthy(get(connector, "paused", None))
                              THEN "Active" ELSE "Paused"),
          sync_state  |-> get(get(connector, "status", EmptyDict), "sync_state", None),
          setup_state |-> get(get(connector, "status", EmptyDict), "setup_state", None),
          last_sync   |-> get(connector, "succeeded_at", None),
          failed_at   |-> get(connector, "failed_at", None),
          paused      |-> get(connector, "paused", Bool(FALSE)),
          group_id    |-> get(connector, "group_id", None)])

\* FivetranAPI.get_all_connectors: any exception is logged and re-raised
get_all_connectors(self, group_id, rem) ==
    LET r == FivetranClient_list_connectors(self, group_id, rem)
    IN  IF r.kind = "raise" THEN r
        ELSE IF r.value.t # "list" THEN Raise(TypeError("NoneType"), r.io)
        ELSE IF \E i \in 1..Len(r.value.v) :
                    get(r.value.v[i], "status", EmptyDict).t # "dict"
        THEN Raise(AttributeError("NoneType", "get"), r.io)
        ELSE Return(List([i \in 1..Len(r.value.v) |-> FormatConnector(r.value.v[i])]),
                    r.io)

\* the dict returned by get_connector_details
FormatDetails(connector) ==
    Dict([id              |-> get(connector, "id", None),
          name            |-> get(connector, "schema", None),
          service         |-> get(connector, "service", None),
          paused          |-> get(connector, "paused", None),
          sync_frequency  |-> get(connector, "sync_frequency", None),
          daily_sync_time |-> get(connector, "daily_sync_time", None),
          schedule_type   |-> get(connector, "schedule_type", None),
          status          |-> get(connector, "status", None),
          setup_state     |-> get(get(connector, "status", EmptyDict), "setup_state", None),
          sync_state      |-> get(get(connector, "status", EmptyDict), "sync_state", None),
          update_state    |-> get(get(connector, "status", EmptyDict), "update_state", None),
          succeeded_at    |-> get(connector, "succeeded_at", None),
          failed_at       |-> get(connector, "failed_at", None),
          config          |-> get(connector, "config", None),
          group_id        |-> get(connector, "group_id", None)])

\* FivetranAPI.get_connector_details: any exception is logged and re-raised
get_connector_details(self, connector_id, rem) ==
    LET r == FivetranClient_get_connector(self, connector_id, rem)
    IN  IF r.kind = "raise" THEN r
        ELSE IF r.value.t # "dict" THEN Raise(AttributeError("NoneType", "get"), r.io)
        ELSE IF get(r.value, "status", EmptyDict).t # "dict"
        THEN Raise(AttributeError("NoneType", "get"), r.io)
        ELSE Return(FormatDetails(r.value), r.io)

\* `except Exception as e: ... return {"success": False, "message": str(e)}`
Failed(r) == Return(Dict([success |-> Bool(FALSE), message |-> Str(str(r.exc))]), r.io)

activate_connector(self, connector_id, rem) ==
    LET r == FivetranClient_activate_connector(self, connector_id, rem)
    IN  IF r.kind = "raise" THEN Failed(r)
        ELSE Return(Dict([success |-> Bool(TRUE),
                          message |-> Str("Connector activated"),
                          data    |-> r.value]), r.io)

pause_connector(self, connector_id, rem) ==
    LET r == FivetranClient_pause_connector(self, connector_id, rem)
    IN  IF r.kind = "raise" THEN Failed(r)
        ELSE Return(Dict([success |-> Bool(TRUE),
                          message |-> Str("Connector paused"),
                          data    |-> r.value]), r.io)

sync_connector(self, connector_id, force, rem) ==
    LET r == FivetranClient_sync_connector(self, connector_id, force, rem)
        sync_type == IF force THEN "force sync" ELSE "sync"
    IN  IF r.kind = "raise" THEN Failed(r)
        ELSE Return(Dict([success |-> Bool(TRUE),
                          message |-> Str("Connector " \o sync_type \o " triggered"),
                          data    |-> r.value]), r.io)

get_connector_schemas(self, connector_id, rem) ==
    LET r == FivetranClient_get_connector_schemas(self, connector_id, rem)
    IN  IF r.kind = "raise" THEN Failed(r)
        ELSE Return(Dict([success |-> Bool(TRUE), data |-> r.value]), r.io)

resync_table(self, connector_id, schema, table, rem) ==
    LET r == FivetranClient_resync_table(self, connector_id, schema, table, rem)
    IN  IF r.kind = "raise" THEN Failed(r)
        ELSE Return(Dict([success |-> Bool(TRUE),
                          message |-> Str("Table " \o schema \o "." \o table
                                          \o " resync triggered"),
                          data    |-> r.value]), r.io)

toggle_table(self, connector_id, schema, table, enabled, rem) ==
    LET r == FivetranClient_update_connector_schema(self, connector_id, schema, table,
                                                    enabled, rem)
        status == IF enabled THEN "enabled" ELSE "disabled"
    IN  IF r.kind = "raise" THEN Failed(r)
        ELSE Return(Dict([success |-> Bool(TRUE),
                          message |-> Str("Table " \o schema \o "." \o table
                                          \o " " \o status),
                          data    |-> r.value]), r.io)

\* the dict appended per group in get_all_groups
FormatGroup(group) ==
    Dict([id         |-> get(group, "id", None),
          name       |-> get(group, "name", None),
          created_at |-> get(group, "created_at", None)])

\* get_all_groups that prepends each record instead of appending it
get_all_groups_reversed(self, rem) ==
    LET r == FivetranClient_list_groups(self, rem)
    IN  IF r.kind = "raise" THEN r
        ELSE IF r.value.t # "list" THEN Raise(TypeError("NoneType"), r.io)
        ELSE Return(List([i \in 1..Len(r.value.v) |->
                             FormatGroup(r.value.v[Len(r.value.v) + 1 - i])]), r.io)

\* get_all_groups with its except clause answering an empty list
get_all_groups_swallowing(self, rem) ==
    LET r == FivetranClient_list_groups(self, rem)
    IN  IF r.kind = "raise" THEN Return(EmptyList, r.io)
        ELSE IF r.value.t # "list" THEN Return(EmptyList, r.io)
        ELSE Return(List([i \in 1..Len(r.value.v) |-> FormatGroup(r.value.v[i])]), r.io)

\* FivetranAPI.get_all_groups: any exception is logged and re-raised
get_all_groups(self, rem) ==
    LET r == FivetranClient_list_groups(self, rem)
    IN  IF r.kind = "raise" THEN r
        ELSE IF r.value.t # "list" THEN Raise(TypeError("NoneType"), r.io)
        ELSE Return(List([i \in 1..Len(r.value.v) |-> FormatGroup(r.value.v[i])]), r.io)

\* test_connection with its except clause re-raising, as the read methods do
test_connection_reraising(self, connector_id, rem) ==
    LET r == FivetranClient_test_connection(self, connector_id, rem)
    IN  IF r.kind = "raise" THEN r
        ELSE Return(Dict([success |-> Bool(TRUE),
                          message |-> Str("Connection test completed"),
                          data    |-> r.value]), r.io)

test_connection(self, connector_id, rem) ==
    LET r == FivetranClient_test_connection(self, connector_id, rem)
    IN  IF r.kind = "raise" THEN Failed(r)
        ELSE Return(Dict([success |-> Bool(TRUE),
                          message |-> Str("Connection test completed"),
                          data    |-> r.value]), r.io)

\* ------------------------------------------------------------ Presentation Layer

\* a details page that shows Active only for `paused is False`
details_status_strict(details) ==
    IF get(details, "paused", None) = Bool(FALSE) THEN "Active" ELSE "Paused"

\* connector_details_page: the Status metric,
\* "Active" if not details.get('paused') else "Paused"
details_status(details) ==
    IF ~Truthy(get(details, "paused", None)) THEN "Active" ELSE "Paused"

\* ------------------------------------------------------------ the remote service

ApiKeys == {"key1", "key2"}

ApiSecrets == {"secret1", "secret2"}

ConnectorIds == {"c1", "c2"}

\* group_id is Optional[str]: None, the empty string, or a group id
GroupIds == {None, Str(""), Str("g1")}

Schemas == {"public"}

Tables == {"orders", "users"}

\* a body that is not JSON (response.json() fails on it)
NotJson == [t |-> "text"]

Envelope(data) == Dict([code |-> Str("Success"), data |-> data])

NoDataEnvelope == Dict([code |-> Str("Success")])

ErrorEnvelope == Dict([code |-> Str("Error"), message |-> Str("request failed")])

ConnectorBase ==
    [id           |-> Str("c1"),
     schema       |-> Str("sales"),
     service      |-> Str("postgres"),
     group_id     |-> Str("g1"),
     status       |-> Dict([setup_state  |-> Str("connected"),
                            sync_state   |-> Str("scheduled"),
                            update_state |-> Str("on_schedule")]),
     succeeded_at   |-> Str("2024-01-01T00:00:00Z"),
     sync_frequency |-> Str("360"),
     schedule_type  |-> Str("auto")]

\* connector payloads: paused true, false, null, or absent
Connectors ==
    {Dict(ConnectorBase)}
    \cup {Dict(("paused" :> p) @@ ConnectorBase) : p \in {Bool(TRUE), Bool(FALSE), None}}

\* group payloads: complete, without created_at, carrying an unknown key, and empty
Groups ==
    {Dict([id |-> Str("g1"), name |-> Str("G1"), created_at |-> Str("2024-01-01T00:00:00Z")]),
     Dict([id |-> Str("g2"), name |-> Str("G2"), owner |-> Str("u1")]),
     EmptyDict}

SeqsUpTo(S, n) == UNION {[1..k -> S] : k \in 0..n}

\* 2xx bodies of a list endpoint: no data, data null, data without items,
\* items null, and items lists of up to MaxItems payloads
ListBodies(S) ==
    {NoDataEnvelope, Envelope(None), Envelope(EmptyDict), Envelope(Dict([items |-> None]))}
    \cup {Envelope(Dict([items |-> List(q)])) : q \in SeqsUpTo(S, MaxItems)}

\* 2xx bodies of a single-entity endpoint
EntityBodies(S) == {NoDataEnvelope, Envelope(None)} \cup {Envelope(d) : d \in S}

Reply(net, delay, status, reason, body) ==
    [net |-> net, delay |-> delay, status |-> status, reason |-> reason, body |-> body]

\* what the service may answer to one request: no connection, silence past the
\* timeout, 200 with any of the bodies or with a body that is not JSON, a 3xx that
\* is not a followed redirect, and 4xx/5xx with the service's error envelope
Replies(bodies) ==
    {Reply("refused", 0, 0, "", NotJson), Reply("ok", timeout + 1, 0, "", NotJson)}
    \cup {Reply("ok", 1, 200, "OK", b) : b \in bodies \cup {NotJson}}
    \cup {Reply("ok", 1, 300, "Multiple Choices", b) : b \in {NoDataEnvelope, NotJson}}
    \cup {Reply("ok", 1, 404, "Not Found", ErrorEnvelope),
          Reply("ok", 1, 500, "Internal Server Error", ErrorEnvelope)}

\* ------------------------------------------------------------ state machine

NoReply == Reply("none", 0, 0, "", NotJson)

\* the state after FivetranAPI(api_key, api_secret)
Constructed ==
    /\ credential \in [api_key : ApiKeys, api_secret : ApiSecrets]
    /\ client = FivetranAPI_init(credential.api_key, credential.api_secret)
    /\ call = [op |-> "__init__"]
    /\ remote = NoReply
    /\ io = <<>>
    /\ result = [kind |-> "return", value |-> None]

\* the state initialize_session_state leaves, but for api (the variable client)
NoSession ==
    /\ session = [authenticated |-> FALSE, page |-> "unset", selected_connector |-> "unset"]
    /\ run = [event |-> [kind |-> "none"], ops |-> <<>>]

Init ==
    /\ Constructed
    /\ service = [id \in ConnectorIds |-> FALSE]
    /\ last = [id \in ConnectorIds |-> "none"]
    /\ NoSession

\* one invocation of a Domain Service method: c is the call, rem the service's
\* reply to its request, o what the method did
Called(c, rem, o) ==
    /\ call' = c
    /\ remote' = rem
    /\ io' = o.io
    /\ result' = Outcome(o)
    /\ UNCHANGED <<credential, client, session, run>>

\* the same against a service whose replies are arbitrary
Invoke(c, rem, o) ==
    /\ Called(c, rem, o)
    /\ UNCHANGED <<service, last>>

GetAllConnectors ==
    \E g \in GroupIds, rem \in Replies(ListBodies(Connectors)) :
        Invoke([op |-> "get_all_connectors", group_id |-> g], rem,
               get_all_connectors(client, g, rem))

GetConnectorDetails ==
    \E id \in ConnectorIds, rem \in Replies(EntityBodies(Connectors)) :
        Invoke([op |-> "get_connector_details", connector_id |-> id], rem,
               get_connector_details(client, id, rem))

ActivateConnector ==
    \E id \in ConnectorIds, rem \in Replies(EntityBodies({Dict(ConnectorBase)})) :
        Invoke([op |-> "activate_connector", connector_id |-> id], rem,
               activate_connector(client, id, rem))

PauseConnector ==
    \E id \in ConnectorIds, rem \in Replies(EntityBodies({Dict(ConnectorBase)})) :
        Invoke([op |-> "pause_connector", connector_id |-> id], rem,
               pause_connector(client, id, rem))

SyncConnector ==
    \E id \in ConnectorIds, force \in BOOLEAN, rem \in Replies(EntityBodies({EmptyDict})) :
        Invoke([op |-> "sync_connector", connector_id |-> id, force |-> force], rem,
               sync_connector(client, id, force, rem))

GetConnectorSchemas ==
    \E id \in ConnectorIds, rem \in Replies(EntityBodies({EmptyDict})) :
        Invoke([op |-> "get_connector_schemas", connector_id |-> id], rem,
               get_connector_schemas(client, id, rem))

ResyncTable ==
    \E id \in ConnectorIds, s \in Schemas, t \in Tables,
       rem \in Replies(EntityBodies({EmptyDict})) :
        Invoke([op |-> "resync_table", connector_id |-> id, schema |-> s, table |-> t],
               rem, resync_table(client, id, s, t, rem))

ToggleTable ==
    \E id \in ConnectorIds, s \in Schemas, t \in Tables, enabled \in BOOLEAN,
       rem \in Replies(EntityBodies({EmptyDict})) :
        Invoke([op |-> "toggle_table", connector_id |-> id, schema |-> s, table |-> t,
                enabled |-> enabled],
               rem, toggle_table(client, id, s, t, enabled, rem))

GetAllGroups ==
    \E rem \in Replies(ListBodies(Groups)) :
        Invoke([op |-> "get_all_groups"], rem, get_all_groups(client, rem))

TestConnection ==
    \E id \in ConnectorIds, rem \in Replies(EntityBodies({EmptyDict})) :
        Invoke([op |-> "test_connection", connector_id |-> id], rem,
               test_connection(client, id, rem))

Next ==
    \/ GetAllConnectors
    \/ GetConnectorDetails
    \/ ActivateConnector
    \/ PauseConnector
    \/ SyncConnector
    \/ GetConnectorSchemas
    \/ ResyncTable
    \/ ToggleTable
    \/ GetAllGroups
    \/ TestConnection

Spec == Init /\ [][Next]_vars

\* ------------------------------------------------------------ a service that applies the body

\* the order in which the service lists its connectors
ConnectorOrder == <<"c1", "c2">>

\* the service's state after a request it accepts: PATCH connectors/{id} with a
\* boolean paused in its body sets the paused flag of connector id
ServiceApply(svc, req) ==
    [id \in ConnectorIds |->
        IF /\ req.method = "PATCH"
           /\ req.url = BASE_URL \o "/connectors/" \o id
           /\ req.json.t = "dict"
           /\ "paused" \in DOMAIN req.json.v
           /\ req.json.v["paused"].t = "bool"
        THEN req.json.v["paused"].v
        ELSE svc[id]]

\* the service's payload of connector id
ServiceConnector(svc, id) ==
    Dict(("id" :> Str(id)) @@ ("paused" :> Bool(svc[id])) @@ ConnectorBase)

\* the service's answer to a list request
ServiceList(svc) ==
    Envelope(Dict([items |->
        List([i \in 1..Len(ConnectorOrder) |-> ServiceConnector(svc, ConnectorOrder[i])])]))

\* replies with which the service rejects a request without applying it
Rejections ==
    {Reply("refused", 0, 0, "", NotJson),
     Reply("ok", 1, 500, "Internal Server Error", ErrorEnvelope)}

Accepted(rem) == rem.net = "ok" /\ rem.status = 200

Succeeded(o) == o.kind = "return" /\ o.value.v["success"] = Bool(TRUE)

\* activate_connector or pause_connector against the service: an accepted request
\* is applied, and a call that reports success becomes the connector's last
Patch(op, id, rem, o) ==
    /\ Called([op |-> op, connector_id |-> id], rem, o)
    /\ service' = IF Accepted(rem) THEN ServiceApply(service, o.io[1].request)
                  ELSE service
    /\ last' = IF Succeeded(o) THEN [last EXCEPT ![id] = op] ELSE last

ServiceActivate ==
    \E id \in ConnectorIds,
       rem \in {Reply("ok", 1, 200, "OK", Envelope(Dict(ConnectorBase)))} \cup Rejections :
        Patch("activate_connector", id, rem, activate_connector(client, id, rem))

ServicePause ==
    \E id \in ConnectorIds,
       rem \in {Reply("ok", 1, 200, "OK", Envelope(Dict(ConnectorBase)))} \cup Rejections :
        Patch("pause_connector", id, rem, pause_connector(client, id, rem))

ServiceListConnectors ==
    \E g \in GroupIds,
       rem \in {Reply("ok", 1, 200, "OK", ServiceList(service))} \cup Rejections :
        Invoke([op |-> "get_all_connectors", group_id |-> g], rem,
               get_all_connectors(client, g, rem))

InitService ==
    /\ Constructed
    /\ service \in [ConnectorIds -> BOOLEAN]
    /\ last = [id \in ConnectorIds |-> "none"]
    /\ NoSession

NextService ==
    \/ ServiceActivate
    \/ ServicePause
    \/ ServiceListConnectors

SpecService == InitService /\ [][NextService]_vars

\* ------------------------------------------------------------ Presentation Layer: the page
\*
\* One script run of app.py is main(st, ev, r): st is st.session_state with what
\* the run has done so far, ev the widget values of the run (the button whose
\* click triggered it and the two text inputs), r what the run meets: how each
\* call of the Domain Service ends, and the option the selectbox holds.  st.rerun() ends the run at once (it is not an
\* Exception, so no handler of the page catches it) and a fresh run follows.
\* Messages written to the page (st.error, st.success, ...) are not state.

Button(kind) == [kind |-> kind]

ConnectorButton(kind, id) == [kind |-> kind, connector_id |-> id]

CardButtons == {"activate", "pause", "sync", "force", "details"}

\* st.button(...) after the widget was put on the page
Shows(st, buttons) == [st EXCEPT !.shown = @ \cup buttons]

\* st.rerun()
Rerun(st) == [st EXCEPT !.rerun = TRUE]

\* the operations of the Domain Service the page invokes
Calls ==
    {[op |-> "get_all_groups"]}
    \cup {[op |-> "get_all_connectors", group_id |-> g] : g \in GroupIds}
    \cup {[op |-> o, connector_id |-> id] :
              o \in {"get_connector_details", "activate_connector", "pause_connector",
                     "get_connector_schemas", "test_connection"},
              id \in ConnectorIds}
    \cup {[op |-> "sync_connector", connector_id |-> id, force |-> f] :
              id \in ConnectorIds, f \in BOOLEAN}

\* self.<op>(...) of a FivetranAPI instance, the remote service replying rem
Api(self, c, rem) ==
    CASE c.op = "get_all_groups"        -> get_all_groups(self, rem)
      [] c.op = "get_all_connectors"    -> get_all_connectors(self, c.group_id, rem)
      [] c.op = "get_connector_details" -> get_connector_details(self, c.connector_id, rem)
      [] c.op = "activate_connector"    -> activate_connector(self, c.connector_id, rem)
      [] c.op = "pause_connector"       -> pause_connector(self, c.connector_id, rem)
      [] c.op = "sync_connector"        -> sync_connector(self, c.connector_id, c.force, rem)
      [] c.op = "get_connector_schemas" -> get_connector_schemas(self, c.connector_id, rem)
      [] c.op = "test_connection"       -> test_connection(self, c.connector_id, rem)

\* st.session_state.api.<op>(...): on None the attribute lookup fails and nothing
\* is invoked; otherwise the operation runs (backend[self, c] is how it ends in
\* this run) and the run's log records it with the instance it was invoked on and
\* the authenticated flag at that moment
ApiCall(st, c, backend) ==
    LET logged(o) ==
            [st |-> [st EXCEPT !.ops = Append(@, [call          |-> c,
                                                  kind          |-> o.kind,
                                                  authenticated |-> st.authenticated,
                                                  self          |-> st.api])],
             o  |-> o]
    IN IF st.api = None
       THEN [st |-> st, o |-> Raise(AttributeError("NoneType", c.op), <<>>)]
       ELSE logged(backend[st.api, c])

\* what initialize_session_state leaves in a new session
initialize_session_state ==
    [api |-> None, authenticated |-> FALSE, page |-> "unset", selected_connector |-> "unset"]

authenticate_trusting(st, ev, r) ==
    LET s1 == Shows(st, {Button("connect")})
        probed(a) == Rerun([a.st EXCEPT !.authenticated = TRUE])
    IN IF ev.button # Button("connect") THEN s1
       ELSE IF ev.api_key # "" /\ ev.api_secret # ""
       THEN probed(ApiCall([s1 EXCEPT !.api = FivetranAPI_init(ev.api_key, ev.api_secret)],
                           [op |-> "get_all_groups"], r.backend))
       ELSE s1

authenticate(st, ev, r) ==
    LET s1 == Shows(st, {Button("connect")})
        \* after the probe: authenticated and st.rerun(), or the except branch
        probed(a) == IF a.o.kind = "return"
                     THEN Rerun([a.st EXCEPT !.authenticated = TRUE])
                     ELSE a.st
    IN IF ev.button # Button("connect") THEN s1
       ELSE IF ev.api_key # "" /\ ev.api_secret # ""
       THEN probed(ApiCall([s1 EXCEPT !.api = FivetranAPI_init(ev.api_key, ev.api_secret)],
                           [op |-> "get_all_groups"], r.backend))
       ELSE s1

\* the selectbox of connectors_page: "All Groups" and then the groups, and the
\* id of the option picked (the first when the pick is not among the options);
\* the groups of a reply have distinct names, none of them "All Groups"
group_options(groups) ==
    <<None>> \o [i \in 1..Len(groups.v) |-> groups.v[i].v["id"]]

selected_group_id(groups, pick) ==
    LET options == group_options(groups)
    IN IF pick < Len(options) THEN options[pick + 1] ELSE options[1]

\* the buttons of one connector of the list, in the order of the page
connector_buttons(st, ev, connector, r) ==
    LET id == connector.v["id"].v
        s1 == Shows(st, {ConnectorButton(k, id) : k \in CardButtons})
        \* result['success'] and st.rerun(); an exception leaves the loop
        rerunning(a) ==
            IF a.o.kind = "raise" THEN [a.st EXCEPT !.raised = TRUE]
            ELSE IF Truthy(a.o.value.v["success"]) THEN Rerun(a.st)
            ELSE a.st
        \* result['success'] without st.rerun()
        staying(a) ==
            IF a.o.kind = "raise" THEN [a.st EXCEPT !.raised = TRUE] ELSE a.st
    IN CASE ev.button = ConnectorButton("activate", id) ->
                rerunning(ApiCall(s1, [op |-> "activate_connector", connector_id |-> id],
                                  r.backend))
         [] ev.button = ConnectorButton("pause", id) ->
                rerunning(ApiCall(s1, [op |-> "pause_connector", connector_id |-> id],
                                  r.backend))
         [] ev.button = ConnectorButton("sync", id) ->
                staying(ApiCall(s1, [op |-> "sync_connector", connector_id |-> id,
                                     force |-> FALSE], r.backend))
         [] ev.button = ConnectorButton("force", id) ->
                staying(ApiCall(s1, [op |-> "sync_connector", connector_id |-> id,
                                     force |-> TRUE], r.backend))
         [] ev.button = ConnectorButton("details", id) ->
                Rerun([s1 EXCEPT !.selected_connector = id, !.page = "details"])
         [] OTHER -> s1

RECURSIVE connector_cards(_, _, _, _, _)
connector_cards(st, ev, connectors, i, r) ==
    LET next(s) == IF s.rerun \/ s.raised THEN s
                   ELSE connector_cards(s, ev, connectors, i + 1, r)
    IN IF i > Len(connectors) THEN st
       ELSE next(connector_buttons(st, ev, connectors[i], r))

connectors_page(st, ev, r) ==
    LET \* the cards are in the try block: an exception of a button ends there
        caught(s) == [s EXCEPT !.raised = FALSE]
        \* after get_all_connectors: the except branch, `if not connectors`, the cards
        listed(c) ==
            IF c.o.kind = "raise" THEN c.st
            ELSE IF ~Truthy(c.o.value) THEN c.st
            ELSE caught(connector_cards(c.st, ev, c.o.value.v, 1, r))
        \* after get_all_groups: the selected group, or None in the except branch
        grouped(g) ==
            listed(ApiCall(Shows(g.st, {Button("refresh")}),
                           [op       |-> "get_all_connectors",
                            group_id |-> IF g.o.kind = "return"
                                         THEN selected_group_id(g.o.value, r.pick)
                                         ELSE None],
                           r.backend))
    IN grouped(ApiCall(st, [op |-> "get_all_groups"], r.backend))

\* the loops of the Load Schemas block end without an exception: data, schemas,
\* each schema, its tables and each table are dicts where they are not empty
schemas_render(data) ==
    /\ data.t = "dict"
    /\ LET schemas == get(data, "schemas", EmptyDict)
       IN Truthy(schemas) =>
            /\ schemas.t = "dict"
            /\ \A s \in DOMAIN schemas.v :
                 /\ schemas.v[s].t = "dict"
                 /\ LET tables == get(schemas.v[s], "tables", EmptyDict)
                    IN Truthy(tables) =>
                         /\ tables.t = "dict"
                         /\ \A n \in DOMAIN tables.v : tables.v[n].t = "dict"

connector_details_page(st, ev, r) ==
    LET id == st.selected_connector
        state(a) == a.st
        \* the Test Connection button
        tested(s) ==
            IF ev.button = Button("test_connection")
            THEN state(ApiCall(s, [op |-> "test_connection", connector_id |-> id], r.backend))
            ELSE s
        \* after get_connector_schemas: the block renders or raises into the handler
        loaded(l) ==
            IF l.o.kind = "raise" THEN l.st
            ELSE IF Truthy(l.o.value.v["success"]) /\ ~schemas_render(l.o.value.v["data"])
            THEN l.st
            ELSE tested(Shows(l.st, {Button("test_connection")}))
        \* after get_connector_details: the except branch, or the Load Schemas button
        detailed(d) ==
            IF d.o.kind = "raise" THEN d.st
            ELSE IF ev.button = Button("load_schemas")
            THEN loaded(ApiCall(Shows(d.st, {Button("load_schemas")}),
                                [op |-> "get_connector_schemas", connector_id |-> id],
                                r.backend))
            ELSE tested(Shows(d.st, {Button("load_schemas"), Button("test_connection")}))
    IN IF ev.button = Button("back")
       THEN Rerun([Shows(st, {Button("back")}) EXCEPT !.page = "connectors"])
       ELSE IF st.selected_connector = "unset" THEN Shows(st, {Button("back")})
       ELSE detailed(ApiCall(Shows(st, {Button("back")}),
                             [op |-> "get_connector_details", connector_id |-> id],
                             r.backend))

disconnect_keeping_flag(st) ==
    Rerun([st EXCEPT !.api = None])

\* the Disconnect button's handler
disconnect(st) ==
    Rerun([st EXCEPT !.authenticated = FALSE, !.api = None])

\* main() from the navigation on: what an authenticated session runs
navigation(st, ev, r) ==
    LET s0 == IF st.page = "unset" THEN [st EXCEPT !.page = "connectors"] ELSE st
        s1 == Shows(s0, {Button("nav_connectors")})
        s2 == Shows(s1, {Button("disconnect")})
    IN IF ev.button = Button("nav_connectors") THEN Rerun([s1 EXCEPT !.page = "connectors"])
       ELSE IF ev.button = Button("disconnect") THEN disconnect(s2)
       ELSE IF s2.page = "connectors" THEN connectors_page(s2, ev, r)
       ELSE IF s2.page = "details" THEN connector_details_page(s2, ev, r)
       ELSE s2

main_falling_through(st, ev, r) ==
    LET routed(s) == IF s.rerun THEN s ELSE navigation(s, ev, r)
    IN IF ~st.authenticated
       THEN routed(authenticate(st, ev, r))
       ELSE navigation(st, ev, r)

main(st, ev, r) ==
    IF ~st.authenticated
    THEN authenticate(st, ev, r)
    ELSE navigation(st, ev, r)

\* ------------------------------------------------------------ the page's state machine

\* the remote service as the page meets it: it answers or it is down
Down == Reply("ok", 1, 500, "Internal Server Error", ErrorEnvelope)

Answer(data) == Reply("ok", 1, 200, "OK", Envelope(data))

SchemaConfig ==
    Dict([schemas |-> Dict([s \in Schemas |->
        Dict([tables |-> Dict([n \in Tables |-> Dict([enabled |-> Bool(TRUE)])])])])])

\* the replies to the calls a run of the page can make, and the option its
\* selectbox holds: the unauthenticated page calls get_all_groups only, the
\* connectors page the two lists and a button's operation, the details page
\* get_connector_details and a button's operation (none in a run without a click)
PageReplies(st, click) ==
    LET listing == st.authenticated /\ st.page # "details"
        detail  == st.authenticated /\ st.page = "details"
    IN [groups     : IF detail THEN {Down}
                     ELSE {Down, Answer(Dict([items |-> List(<<CHOOSE g \in Groups :
                                      Truthy(get(g, "created_at", None))>>)]))},
        connectors : IF listing
                     THEN {Down, Answer(Dict([items |-> EmptyList])),
                           Reply("ok", 1, 200, "OK", ServiceList([id \in ConnectorIds |-> FALSE]))}
                     ELSE {Down},
        details    : IF detail
                     THEN {Down, Answer(ServiceConnector([id \in ConnectorIds |-> FALSE], "c1"))}
                     ELSE {Down},
        action     : IF st.authenticated /\ click THEN {Down, Answer(SchemaConfig)} ELSE {Down},
        pick       : IF listing THEN 0..1 ELSE {0}]

\* the reply of the run to a call
ReplyTo(replies, c) ==
    CASE c.op = "get_all_groups"        -> replies.groups
      [] c.op = "get_all_connectors"    -> replies.connectors
      [] c.op = "get_connector_details" -> replies.details
      [] OTHER                          -> replies.action

\* how each call ends in a run with these replies, on whichever instance it is made
Backend(replies) ==
    [self \in {FivetranAPI_init(k, s) : k \in ApiKeys, s \in ApiSecrets}, c \in Calls |->
        Outcome(Api(self, c, ReplyTo(replies, c)))]

\* what is typed into a text input: nothing, or a key or secret
Typed(texts) == {""} \cup texts

\* the session as a script run finds it, and as the last run of an event leaves it
Begin ==
    [api |-> client, authenticated |-> session.authenticated, page |-> session.page,
     selected_connector |-> session.selected_connector,
     ops |-> <<>>, shown |-> {}, rerun |-> FALSE, raised |-> FALSE]

End(ev, st) ==
    /\ client' = st.api
    /\ session' = [authenticated      |-> st.authenticated,
                   page               |-> st.page,
                   selected_connector |-> st.selected_connector]
    /\ run' = [event |-> ev, ops |-> st.ops, shown |-> st.shown]
    /\ credential' = IF ev.button = Button("connect") /\ ev.api_key # "" /\ ev.api_secret # ""
                     THEN [api_key |-> ev.api_key, api_secret |-> ev.api_secret]
                     ELSE credential
    /\ UNCHANGED <<call, remote, io, result, service, last>>

\* ev is the user's event, widgets the widget values of the run at hand: the
\* run st.rerun() starts sees the same page with no button clicked
RECURSIVE ScriptRun(_, _, _)
ScriptRun(st, ev, widgets) ==
    \E replies \in PageReplies(st, widgets.button # Button("none")) :
        \E s \in {main(st, widgets, [backend |-> Backend(replies), pick |-> replies.pick])} :
            IF s.rerun
            THEN ScriptRun([s EXCEPT !.rerun = FALSE, !.shown = {}], ev,
                           [widgets EXCEPT !.button = Button("none")])
            ELSE End(ev, s)

UserRun(ev) == ScriptRun(Begin, ev, ev)

Event(button) == [button |-> button, api_key |-> "", api_secret |-> ""]

\* a run without a click: a text typed, another group selected, a rerun asked for
Rerender ==
    \E key \in Typed(ApiKeys), secret \in Typed(ApiSecrets) :
        /\ session.authenticated => key = "" /\ secret = ""
        /\ UserRun([button |-> Button("none"), api_key |-> key, api_secret |-> secret])

\* a click on a button the last run has put on the page
ClickConnect ==
    /\ Button("connect") \in run.shown
    /\ \E key \in Typed(ApiKeys), secret \in Typed(ApiSecrets) :
           UserRun([button |-> Button("connect"), api_key |-> key, api_secret |-> secret])

ClickConnectors ==
    /\ Button("nav_connectors") \in run.shown
    /\ UserRun(Event(Button("nav_connectors")))

ClickDisconnect ==
    /\ Button("disconnect") \in run.shown
    /\ UserRun(Event(Button("disconnect")))

ClickRefresh ==
    /\ Button("refresh") \in run.shown
    /\ UserRun(Event(Button("refresh")))

ClickActivate ==
    \E id \in ConnectorIds :
        /\ ConnectorButton("activate", id) \in run.shown
        /\ UserRun(Event(ConnectorButton("activate", id)))

ClickPause ==
    \E id \in ConnectorIds :
        /\ ConnectorButton("pause", id) \in run.shown
        /\ UserRun(Event(ConnectorButton("pause", id)))

ClickSync ==
    \E id \in ConnectorIds :
        /\ ConnectorButton("sync", id) \in run.shown
        /\ UserRun(Event(ConnectorButton("sync", id)))

ClickForceSync ==
    \E id \in ConnectorIds :
        /\ ConnectorButton("force", id) \in run.shown
        /\ UserRun(Event(ConnectorButton("force", id)))

ClickDetails ==
    \E id \in ConnectorIds :
        /\ ConnectorButton("details", id) \in run.shown
        /\ UserRun(Event(ConnectorButton("details", id)))

ClickBack ==
    /\ Button("back") \in run.shown
    /\ UserRun(Event(Button("back")))

ClickLoadSchemas ==
    /\ Button("load_schemas") \in run.shown
    /\ UserRun(Event(Button("load_schemas")))

ClickTestConnection ==
    /\ Button("test_connection") \in run.shown
    /\ UserRun(Event(Button("test_connection")))

\* a new session: nothing typed, no client, and the first run has shown the page
InitApp ==
    /\ credential = [api_key |-> "", api_secret |-> ""]
    /\ client = initialize_session_state.api
    /\ session = [authenticated      |-> initialize_session_state.authenticated,
                  page               |-> initialize_session_state.page,
                  selected_connector |-> initialize_session_state.selected_connector]
    /\ run = [event |-> Event(Button("none")), ops |-> <<>>, shown |-> {Button("connect")}]
    /\ call = [op |-> "none"]
    /\ remote = NoReply
    /\ io = <<>>
    /\ result = [kind |-> "return", value |-> None]
    /\ service = [id \in ConnectorIds |-> FALSE]
    /\ last = [id \in ConnectorIds |-> "none"]

NextApp ==
    \/ Rerender
    \/ ClickConnect
    \/ ClickConnectors
    \/ ClickDisconnect
    \/ ClickRefresh
    \/ ClickActivate
    \/ ClickPause
    \/ ClickSync
    \/ ClickForceSync
    \/ ClickDetails
    \/ ClickBack
    \/ ClickLoadSchemas
    \/ ClickTestConnection

SpecApp == InitApp /\ [][NextApp]_vars

\* ------------------------------------------------------------ vocabulary of the properties

ReadOps == {"get_all_groups", "get_all_connectors", "get_connector_details"}

MutatingOps == {"activate_connector", "pause_connector", "sync_connector",
                "resync_table", "toggle_table", "test_connection"}

WrappedOps == MutatingOps \cup {"get_connector_schemas"}

Invoked == call.op \in ReadOps \cup WrappedOps

NetworkFailed == remote.net = "refused" \/ remote.delay > timeout

\* the remote call failed: no connection, a timeout, a 4xx/5xx status, or a
\* body the transport could not parse
RemoteFailed ==
    \/ NetworkFailed
    \/ remote.status >= 400 /\ remote.status < 600
    \/ remote.body = NotJson

\* a text that names the cause of the failure
Cause ==
    IF remote.net = "refused" THEN "Connection refused"
    ELSE IF remote.delay > timeout THEN "timed out"
    ELSE IF remote.status >= 400 THEN StatusText(remote.status) \o " "
    ELSE "Expecting value"

IsResult(v, success) ==
    /\ v.t = "dict"
    /\ "success" \in DOMAIN v.v
    /\ v.v["success"] = Bool(success)
    /\ "message" \in DOMAIN v.v
    /\ v.v["message"].t = "str"

\* ------------------------------------------------------------ C1

\* C1: every mutating or test operation returns, whatever the remote call did:
\* success == true with a non-empty message when the call succeeded, success ==
\* false with the cause of the failure in message when it failed; no error escapes.
C1_WrappedOutcome ==
    call.op \in MutatingOps =>
        /\ result.kind = "return"
        /\ IF RemoteFailed
           THEN /\ IsResult(result.value, FALSE)
                /\ Contains(result.value.v["message"].v, Cause)
           ELSE /\ IsResult(result.value, TRUE)
                /\ Len(result.value.v["message"].v) > 0

C1_Witness ==
    /\ call.op = "test_connection"
    /\ remote.delay > timeout
    /\ result.kind = "return"
    /\ result.value.v["success"] = Bool(FALSE)

\* ------------------------------------------------------------ C2

\* C2: when the remote call fails, each of get_all_groups, get_all_connectors and
\* get_connector_details raises the error the transport raised and returns no value.
C2_ReadsPropagate ==
    call.op \in ReadOps /\ RemoteFailed =>
        /\ result.kind = "raise"
        /\ "value" \notin DOMAIN result
        /\ io[1].reply.kind = "raise"
        /\ result.exc = io[1].reply.exc
        /\ result.exc.type \in {"ConnectionError", "Timeout", "HTTPError", "JSONDecodeError"}
        /\ result.exc.status = (IF NetworkFailed THEN 0 ELSE
                                IF remote.status >= 400 THEN remote.status ELSE 0)

C2_Witness ==
    /\ call.op = "get_all_groups"
    /\ remote.status = 500
    /\ result.kind = "raise"
    /\ result.exc.type = "HTTPError"

\* ------------------------------------------------------------ C3

\* C3: in every record get_all_connectors emits, status is "Active" exactly when
\* the emitted paused field is false, and "Paused" otherwise.
C3_StatusAgreesWithPaused ==
    call.op = "get_all_connectors" /\ result.kind = "return" =>
        \A i \in 1..Len(result.value.v) :
            LET rec == result.value.v[i].v
            IN  /\ rec.status \in {Str("Active"), Str("Paused")}
                /\ (rec.status = Str("Active")) <=> (rec.paused = Bool(FALSE))

\* ------------------------------------------------------------ C4

\* C4: every wrapped operation, get_connector_schemas included, returns a record
\* with a boolean success, a string message, and no field besides these and data.
C4_UniformResult ==
    call.op \in WrappedOps =>
        /\ result.kind = "return"
        /\ result.value.t = "dict"
        /\ {"success", "message"} \subseteq DOMAIN result.value.v
        /\ DOMAIN result.value.v \subseteq {"success", "message", "data"}
        /\ result.value.v["success"].t = "bool"
        /\ result.value.v["message"].t = "str"

\* ------------------------------------------------------------ C5

SyncUrl(id, force) ==
    BASE_URL \o "/connectors/" \o id \o (IF force THEN "/force" ELSE "/sync")

\* C5: sync_connector(id, force) posts to connectors/{id}/force when force is set
\* and to connectors/{id}/sync when it is not, never to the other path; on success
\* its message contains "sync", and contains "force sync" exactly when force is set.
C5_SyncTargets ==
    call.op = "sync_connector" =>
        /\ io # <<>>
        /\ \A i \in 1..Len(io) :
               /\ io[i].request.method = "POST"
               /\ io[i].request.url = SyncUrl(call.connector_id, call.force)
               /\ io[i].request.url # SyncUrl(call.connector_id, ~call.force)
        /\ ~RemoteFailed =>
               /\ IsResult(result.value, TRUE)
               /\ Contains(result.value.v["message"].v, "sync")
               /\ Contains(result.value.v["message"].v, "force sync") <=> call.force

C5_Witness ==
    /\ call.op = "sync_connector"
    /\ call.force
    /\ io[1].request.url = "https://api.fivetran.com/v1/connectors/c1/force"
    /\ result.value.v["success"] = Bool(TRUE)
    /\ result.value.v["message"] = Str("Connector force sync triggered")

\* ------------------------------------------------------------ C6

\* C6: toggle_table(id, schema, table, enabled) issues exactly one request, PATCH
\* connectors/{id}/schemas/{schema}/tables/{table} with body {"enabled": enabled},
\* and on success returns success == true with a message containing "enabled"
\* when enabled is true and "disabled" when it is false.
C6_ToggleTable ==
    call.op = "toggle_table" =>
        /\ Len(io) = 1
        /\ io[1].request.method = "PATCH"
        /\ io[1].request.url = BASE_URL \o "/connectors/" \o call.connector_id
                               \o "/schemas/" \o call.schema \o "/tables/" \o call.table
        /\ io[1].request.json = Dict([enabled |-> Bool(call.enabled)])
        /\ ~RemoteFailed =>
               /\ IsResult(result.value, TRUE)
               /\ Contains(result.value.v["message"].v,
                           IF call.enabled THEN "enabled" ELSE "disabled")

C6_Witness ==
    /\ call.op = "toggle_table"
    /\ ~call.enabled
    /\ io[1].request.url = "https://api.fivetran.com/v1/connectors/c2/schemas/public/tables/orders"
    /\ io[1].request.json = Dict([enabled |-> Bool(FALSE)])
    /\ result.value.v["message"] = Str("Table public.orders disabled")

\* ------------------------------------------------------------ C7

\* the service answered the list request with a JSON envelope
Answered == ~RemoteFailed /\ remote.body.t = "dict"

\* the envelope has no usable data: no data key, data null, or data without items
NoUsableData ==
    \/ "data" \notin DOMAIN remote.body.v
    \/ remote.body.v["data"] = None
    \/ /\ remote.body.v["data"].t = "dict"
       /\ "items" \notin DOMAIN remote.body.v["data"].v

\* C7: get_all_groups and get_all_connectors answer an empty list, and never an
\* error, when the envelope of a successful response has no usable data.
C7_EmptyEnvelope ==
    call.op \in {"get_all_groups", "get_all_connectors"} /\ Answered /\ NoUsableData =>
        result = [kind |-> "return", value |-> EmptyList]

\* ------------------------------------------------------------ C8

HasItems ==
    /\ Answered
    /\ "data" \in DOMAIN remote.body.v
    /\ remote.body.v["data"].t = "dict"
    /\ "items" \in DOMAIN remote.body.v["data"].v
    /\ remote.body.v["data"].v["items"].t = "list"

\* C8: get_all_groups returns one record per item of data.items, in the same
\* order, each holding exactly id, name and created_at, copied from the item or
\* null where the item lacks the field.
C8_GroupsProjection ==
    call.op = "get_all_groups" /\ HasItems =>
        LET items == remote.body.v["data"].v["items"].v
        IN  /\ result.kind = "return"
            /\ result.value.t = "list"
            /\ Len(result.value.v) = Len(items)
            /\ \A i \in 1..Len(items) :
                   /\ result.value.v[i].t = "dict"
                   /\ DOMAIN result.value.v[i].v = {"id", "name", "created_at"}
                   /\ \A k \in {"id", "name", "created_at"} :
                          result.value.v[i].v[k] =
                              IF k \in DOMAIN items[i].v THEN items[i].v[k] ELSE None

C8_Witness ==
    /\ call.op = "get_all_groups"
    /\ HasItems
    /\ result.kind = "return"
    /\ Len(result.value.v) = 2
    /\ result.value.v[1].v = [id |-> Str("g2"), name |-> Str("G2"), created_at |-> None]
    /\ result.value.v[2].v["id"] = Str("g1")

\* ------------------------------------------------------------ C9

\* C9: every invocation of a Domain Service operation issues exactly one
\* transport request, whether the request succeeds or fails.
C9_FireOnce == Invoked => Len(io) = 1

C9_Witness ==
    /\ call.op = "activate_connector"
    /\ remote.status = 500
    /\ Len(io) = 1
    /\ io[1].reply.kind = "raise"

\* ------------------------------------------------------------ C10

\* C10: the transport request ends with a raised error and no return value on
\* every non-2xx status and every network failure, a timeout included; a timeout
\* surfaces as a raised error from the read operations and as success == false
\* from the wrapped ones.
C10_NonSuccessRaises ==
    Invoked =>
        /\ NetworkFailed \/ remote.status < 200 \/ remote.status > 299 =>
               /\ io[1].reply.kind = "raise"
               /\ "value" \notin DOMAIN io[1].reply
        /\ remote.net = "ok" /\ remote.delay > timeout =>
               IF call.op \in ReadOps
               THEN result.kind = "raise" /\ result.exc.type = "Timeout"
               ELSE IsResult(result.value, FALSE)

\* ------------------------------------------------------------ C12

ConnectorsUrl == BASE_URL \o "/connectors"

GroupConnectorsUrl(group_id) == BASE_URL \o "/groups/" \o group_id \o "/connectors"

\* C12: get_all_connectors issues GET groups/{group_id}/connectors whenever a
\* group_id is given, the empty string included, and GET connectors only when
\* none is given.
C12_GroupGiven ==
    call.op = "get_all_connectors" =>
        /\ Len(io) = 1
        /\ io[1].request.method = "GET"
        /\ io[1].request.url = IF call.group_id # None
                               THEN GroupConnectorsUrl(call.group_id.v)
                               ELSE ConnectorsUrl

\* C12 as amended: get_all_connectors issues GET groups/{group_id}/connectors
\* whenever a non-empty group_id is given, and GET connectors when group_id is
\* None or the empty string.
C12_GroupNonEmpty ==
    call.op = "get_all_connectors" =>
        /\ Len(io) = 1
        /\ io[1].request.method = "GET"
        /\ io[1].request.url = IF call.group_id # None /\ call.group_id # Str("")
                               THEN GroupConnectorsUrl(call.group_id.v)
                               ELSE ConnectorsUrl

C12_Witness ==
    /\ call.op = "get_all_connectors"
    /\ call.group_id = Str("")
    /\ io[1].request.url = "https://api.fivetran.com/v1/connectors"

\* ------------------------------------------------------------ C13

\* C13: after any sequence of operations the client stores the key/secret pair
\* it was constructed with, and every request sent carries exactly that pair.
C13_CredentialFixed ==
    /\ client.api_key = credential.api_key
    /\ client.api_secret = credential.api_secret
    /\ client.auth = <<credential.api_key, credential.api_secret>>
    /\ \A i \in 1..Len(io) :
           io[i].request.auth = <<credential.api_key, credential.api_secret>>

C13_Witness ==
    /\ call.op = "toggle_table"
    /\ result.kind = "return"
    /\ result.value.v["success"] = Bool(FALSE)
    /\ credential = [api_key |-> "key2", api_secret |-> "secret1"]
    /\ io[1].request.auth = <<"key2", "secret1">>

\* ------------------------------------------------------------ C14

\* the payload of a single-entity answer
HasPayload ==
    /\ Answered
    /\ "data" \in DOMAIN remote.body.v
    /\ remote.body.v["data"].t = "dict"

\* C14: for one connector payload, whatever its paused field (true, false, absent,
\* null), the status of the summary record of get_all_connectors equals the
\* status the details page derives from the record of get_connector_details.
C14_SameStatus ==
    /\ call.op = "get_connector_details" /\ HasPayload =>
           /\ result.kind = "return"
           /\ Str(details_status(result.value)) =
                  FormatConnector(remote.body.v["data"]).v["status"]
    /\ call.op = "get_all_connectors" /\ HasItems =>
           /\ result.kind = "return"
           /\ \A i \in 1..Len(result.value.v) :
                  result.value.v[i].v["status"] =
                      Str(details_status(FormatDetails(remote.body.v["data"].v["items"].v[i])))

C14_Witness ==
    /\ call.op = "get_connector_details"
    /\ HasPayload
    /\ "paused" \in DOMAIN remote.body.v["data"].v
    /\ remote.body.v["data"].v["paused"] = None
    /\ result.value.v["paused"] = None
    /\ details_status(result.value) = "Active"

\* ------------------------------------------------------------ C11

PatchedWith(id, paused) ==
    /\ Len(io) = 1
    /\ io[1].request.method = "PATCH"
    /\ io[1].request.url = BASE_URL \o "/connectors/" \o id
    /\ io[1].request.json = Dict([paused |-> Bool(paused)])

\* C11: activate_connector(id) issues PATCH connectors/{id} with {"paused": false}
\* and pause_connector(id) the same with {"paused": true}; against a service that
\* applies the body, get_all_connectors reports a connector "Active" when the last
\* successful of these calls on it was activate and "Paused" when it was pause.
C11_LastCallDecides ==
    /\ call.op = "activate_connector" => PatchedWith(call.connector_id, FALSE)
    /\ call.op = "pause_connector" => PatchedWith(call.connector_id, TRUE)
    /\ call.op = "get_all_connectors" /\ result.kind = "return" =>
           /\ Len(result.value.v) = Len(ConnectorOrder)
           /\ \A i \in 1..Len(result.value.v) :
                  LET rec == result.value.v[i].v
                  IN  /\ rec.id = Str(ConnectorOrder[i])
                      /\ last[rec.id.v] = "activate_connector" => rec.status = Str("Active")
                      /\ last[rec.id.v] = "pause_connector" => rec.status = Str("Paused")

C11_Witness ==
    /\ call.op = "get_all_connectors"
    /\ result.kind = "return"
    /\ last = [id \in ConnectorIds |-> IF id = "c1" THEN "pause_connector"
                                       ELSE "activate_connector"]
    /\ result.value.v[1].v["status"] = Str("Paused")
    /\ result.value.v[2].v["status"] = Str("Active")

\* ------------------------------------------------------------ vocabulary of the page's properties

Connecting == run.event.button = Button("connect")

\* the run's first call was the probe of a Connect: get_all_groups on the client
\* made from the typed key and secret, invoked while authenticated was false
Probed(kind) ==
    /\ Connecting
    /\ Len(run.ops) >= 1
    /\ run.ops[1] = [call          |-> [op |-> "get_all_groups"],
                     kind          |-> kind,
                     authenticated |-> FALSE,
                     self          |-> FivetranAPI_init(run.event.api_key, run.event.api_secret)]

\* page is set only in an authenticated run, so this session was connected before
WasConnected == session.page # "unset"

\* ------------------------------------------------------------ C15

\* C15: in every reachable state of the session, after any sequence of Connect
\* (succeeding or failing), Disconnect and navigation, authenticated = true
\* implies that the session's api is a constructed client, not None.
C15_ApiWhenAuthenticated ==
    session.authenticated =>
        /\ client # None
        /\ client \in {FivetranAPI_init(k, s) : k \in ApiKeys, s \in ApiSecrets}

\* a Connect has succeeded in a session that was connected and disconnected before
C15_Witness ==
    /\ session.authenticated
    /\ Connecting
    /\ session.page = "details"
    /\ client = FivetranAPI_init(run.event.api_key, run.event.api_secret)

\* ------------------------------------------------------------ C16

\* C16: authenticated changes from false to true only in a Connect in which
\* both key and secret are non-empty and the get_all_groups probe made with the
\* newly constructed client returned without raising; a Connect whose probe
\* raises, or with a missing key or secret, leaves authenticated false.
C16_Step ==
    /\ (~session.authenticated /\ session'.authenticated) =>
          /\ run'.event.api_key # ""
          /\ run'.event.api_secret # ""
          /\ Probed("return")'
          /\ client' = FivetranAPI_init(run'.event.api_key, run'.event.api_secret)
    /\ (/\ ~session.authenticated
        /\ Connecting'
        /\ \/ run'.event.api_key = ""
           \/ run'.event.api_secret = ""
           \/ Probed("raise")') => ~session'.authenticated

C16_OnlyConnect == [][C16_Step]_vars

\* a first Connect has succeeded: its probe returned, and the page that followed
\* found the remote service down
C16_Witness ==
    /\ session.authenticated
    /\ Probed("return")
    /\ session.selected_connector = "unset"
    /\ Len(run.ops) = 3
    /\ run.ops[2].kind = "raise"
    /\ run.ops[2].authenticated

\* ------------------------------------------------------------ C17

\* C17: while the session is unauthenticated the only Domain Service operation
\* invoked is the get_all_groups probe of a Connect: every call made while
\* authenticated was false is that probe, and a run that is not a Connect and
\* leaves the session unauthenticated (a Disconnect, any run after it) made none.
C17_OnlyProbe ==
    /\ \A i \in 1..Len(run.ops) :
           ~run.ops[i].authenticated => i = 1 /\ Probed(run.ops[i].kind)
    /\ (~session.authenticated /\ ~Connecting) => run.ops = <<>>

\* after a Disconnect, a Connect whose probe raised: one call, the session
\* still unauthenticated and holding the client of the failed attempt
C17_Witness ==
    /\ ~session.authenticated
    /\ WasConnected
    /\ Probed("raise")
    /\ Len(run.ops) = 1
    /\ client # None

====
